---- MODULE Spec2Model ----
(***************************************************************************)
(* Model of consciousness_oscillation.py: a Consciousness context holding  *)
(* a fatigue value and one state object (ObservingState or ExistingState), *)
(* the two sensory anchors, and the run_simulation driver.                 *)
(*                                                                         *)
(* Fatigue is a Python float that only ever takes multiples of 0.5 (20.0,  *)
(* +0.5, +3.0, -5.0, -8.0, -10.0, floor 0), all exactly representable, so  *)
(* it is modelled as an integer number of HALF units: 40 is 20.0, 200 is   *)
(* 100.0.  A random.random() draw p in [0,1) is modelled as the integer    *)
(* 400*p in 0..399, so that p < fatigue/200.0 is draw < fatigue here.      *)
(***************************************************************************)
EXTENDS Integers, Sequences, FiniteSets, TLC

VARIABLES
    fatigue,    \* Consciousness.fatigue, in half units
    state,      \* Consciousness.state: the live state object
    op,         \* history: the last operation called on the context
    pre,        \* history: fatigue and state object before that operation
    self,       \* history: the state object the last operation ran against, as that operation left it
    msg,        \* history: index of messages[] printed by the last operation, -1 if none
    drew,       \* history: whether the last operation drew random.random() for the loop trigger
    stay,       \* history: execute ticks received so far by self when it is an ExistingState, else 0
    n,          \* history: execute ticks so far while no trigger fired and no anchor ran, -1 after
    record,     \* history: the payload passed to the last operation, "" if it takes none
    pc,         \* run_simulation: position in the function
    i,          \* run_simulation: loop index of the for statement
    anchors,    \* run_simulation: anchor calls made in the current iteration
    summaries,  \* run_simulation: how many times the "Final Fatigue" line was printed
    reported,   \* run_simulation: the fatigue value printed by the last summary, -1 if none
    ticks       \* run_simulation: consciousness.update() calls made so far

ctx  == <<fatigue, state>>
hist == <<op, pre, self, msg, drew, stay, n, record>>
sim  == <<pc, i, anchors, summaries, reported, ticks>>
vars == <<fatigue, state, op, pre, self, msg, drew, stay, n, record,
          pc, i, anchors, summaries, reported, ticks>>

----
\* Program constants (fatigue amounts in half units).
InitialFatigue == 40
ObserveGain == 1
MetaGain == 6
Threshold == 200
Recovery == 10
RitualRelief == 20
RecordRelief == 16
TriggerScale == 400
NumMessages == 5
MinDuration == 3
MaxDuration == 6
NumTicks == 150
AnchorChance == 80
RitualChance == 200

\* Bounds of the model.
MaxCount == 161

\* Inputs: draws of random.random() (as 400*p) and sensory_record payloads.
Draws == {0, 100, 399}
Payloads == {"A humidifier casts a shadow.", "x"}

Max(a, b) == IF a >= b THEN a ELSE b

----
\* State objects.
ObservingStateStale == [kind |-> "Observing", in_meta_loop |-> TRUE, meta_loop_counter |-> 0]

ObservingState == [kind |-> "Observing", in_meta_loop |-> FALSE, meta_loop_counter |-> 0]

ExistingState(d) == [kind |-> "Existing", duration |-> d]

DurationsLonger == MinDuration..(MaxDuration + 1)

Durations == MinDuration..MaxDuration

IsObserving(s) == s.kind = "Observing"
IsExisting(s) == s.kind = "Existing"
InMetaLoop(s) == IsObserving(s) /\ s.in_meta_loop

ExpiredEarly(s) == s.duration <= 1

Expired(s) == s.duration <= 0

StartMetaLoopCounted(s) == [s EXCEPT !.in_meta_loop = TRUE, !.meta_loop_counter = 1]

StartMetaLoop(s) == [s EXCEPT !.in_meta_loop = TRUE, !.meta_loop_counter = 0]

ExitMetaLoopKeepCounter(s) == [s EXCEPT !.in_meta_loop = FALSE]

ExitMetaLoop(s) == [s EXCEPT !.in_meta_loop = FALSE, !.meta_loop_counter = 0]

TriggerFires(p, f) == p < f

ExceedsThresholdInclusive(f) == f >= Threshold

ExceedsThreshold(f) == f > Threshold

RecoveredNoFloor(f) == f - Recovery

Recovered(f) == Max(0, f - Recovery)

RitualFatigue(f) == Max(0, f - RitualRelief)

RecordFatiguePayload(f, r) == IF r = "x" THEN f ELSE Max(0, f - RecordRelief)

RecordFatigue(f, r) == Max(0, f - RecordRelief)

MessageIndexAfter(s) == (s.meta_loop_counter + 1) % NumMessages

MessageIndex(s) == s.meta_loop_counter % NumMessages

NextCount(pure) == IF n >= 0 /\ pure /\ n < MaxCount THEN n + 1 ELSE -1

----
Init ==
    /\ fatigue = InitialFatigue
    /\ state = ObservingState
    /\ op = "init"
    /\ pre = [fatigue |-> InitialFatigue, state |-> ObservingState]
    /\ self = ObservingState
    /\ msg = -1
    /\ drew = FALSE
    /\ stay = 0
    /\ n = 0
    /\ record = ""
    /\ pc = "start"
    /\ i = 0
    /\ anchors = 0
    /\ summaries = 0
    /\ reported = -1
    /\ ticks = 0

AfterObservingLoopUnchecked(f, s) ==
    IF ExceedsThreshold(f) /\ ~s.in_meta_loop THEN {ExistingState(d) : d \in Durations} ELSE {s}


\* transition_to(ExistingState()) when the check of line 71 succeeds: the
\* objects the context may hold after an Observing tick that left object s.
AfterObserving(f, s) ==
    IF ExceedsThreshold(f) THEN {ExistingState(d) : d \in Durations} ELSE {s}

\* ObservingState.execute, normal branch, with the threshold check after it.
\* p is the random.random() draw of the trigger.
ObservingNormal ==
    /\ IsObserving(state) /\ ~state.in_meta_loop
    /\ \E p \in Draws :
         LET f == fatigue + ObserveGain
             s == IF TriggerFires(p, f) THEN StartMetaLoop(state) ELSE state
         IN /\ fatigue' = f
            /\ self' = s
            /\ state' \in AfterObserving(f, s)
            /\ n' = NextCount(~TriggerFires(p, f))
    /\ stay' = 0
    /\ msg' = -1
    /\ drew' = TRUE

ObservingMetaLoopSelfExit ==
    /\ InMetaLoop(state)
    /\ LET f == fatigue + MetaGain
           c == state.meta_loop_counter + 1
           s == IF c >= NumMessages THEN ExitMetaLoop(state)
                ELSE [state EXCEPT !.meta_loop_counter = c]
       IN /\ fatigue' = f
          /\ self' = s
          /\ state' \in AfterObserving(f, s)
    /\ stay' = 0
    /\ msg' = MessageIndex(state)
    /\ drew' = FALSE
    /\ n' = NextCount(FALSE)


\* ObservingState.execute, meta-loop branch, with the threshold check after it.
ObservingMetaLoop ==
    /\ InMetaLoop(state)
    /\ LET f == fatigue + MetaGain
           s == [state EXCEPT !.meta_loop_counter = @ + 1]
       IN /\ fatigue' = f
          /\ self' = s
          /\ state' \in AfterObserving(f, s)
    /\ stay' = 0
    /\ msg' = MessageIndex(state)
    /\ drew' = FALSE
    /\ n' = NextCount(FALSE)

\* ExistingState.execute.
ExistingExecute ==
    /\ IsExisting(state)
    /\ LET s == [state EXCEPT !.duration = @ - 1]
       IN /\ fatigue' = Recovered(fatigue)
          /\ self' = s
          /\ state' = IF Expired(s) THEN ObservingState ELSE s
    /\ stay' = stay + 1
    /\ msg' = -1
    /\ drew' = FALSE
    /\ n' = NextCount(TRUE)

\* Consciousness.update: one tick, dispatched on the live state object.
Update ==
    /\ \/ ObservingNormal
       \/ ObservingMetaLoop
       \/ ExistingExecute
    /\ op' = "execute"
    /\ pre' = [fatigue |-> fatigue, state |-> state]
    /\ record' = ""

PerformRitualCountsAsTick ==
    /\ state' = IF InMetaLoop(state) THEN ExitMetaLoop(state)
                ELSE IF IsExisting(state) /\ state.duration > 1
                     THEN [state EXCEPT !.duration = @ - 1]
                     ELSE state
    /\ fatigue' = RitualFatigue(fatigue)
    /\ op' = "perform_ritual"
    /\ pre' = [fatigue |-> fatigue, state |-> state]
    /\ self' = state'
    /\ stay' = IF IsExisting(state) THEN stay ELSE 0
    /\ n' = -1
    /\ msg' = -1
    /\ drew' = FALSE
    /\ record' = ""


\* Consciousness.perform_ritual.
PerformRitual ==
    /\ state' = IF InMetaLoop(state) THEN ExitMetaLoop(state) ELSE state
    /\ fatigue' = RitualFatigue(fatigue)
    /\ op' = "perform_ritual"
    /\ pre' = [fatigue |-> fatigue, state |-> state]
    /\ self' = state'
    /\ stay' = IF IsExisting(state) THEN stay ELSE 0
    /\ n' = -1
    /\ msg' = -1
    /\ drew' = FALSE
    /\ record' = ""

\* Consciousness.sensory_record.
SensoryRecord(r) ==
    /\ state' = IF InMetaLoop(state) THEN ExitMetaLoop(state) ELSE state
    /\ fatigue' = RecordFatigue(fatigue, r)
    /\ op' = "sensory_record"
    /\ pre' = [fatigue |-> fatigue, state |-> state]
    /\ record' = r
    /\ self' = state'
    /\ stay' = IF IsExisting(state) THEN stay ELSE 0
    /\ n' = -1
    /\ msg' = -1
    /\ drew' = FALSE

----
\* The context driven by an arbitrary caller: any sequence of ticks and anchors.
Tick == Update /\ UNCHANGED sim
Ritual == PerformRitual /\ UNCHANGED sim
Sensation == \E r \in Payloads : SensoryRecord(r) /\ UNCHANGED sim

Next == Tick \/ Ritual \/ Sensation

Spec == Init /\ [][Next]_vars

----
\* run_simulation.  pc is the statement about to run: "start" (the banner and
\* time.sleep(4), before the try), "update" and "anchor" (the body of the for
\* loop inside the try; "anchor" runs to the end of the iteration, its
\* time.sleep(0.3) included), "except", "finally", then "done" (returned) or
\* "aborted" (left by an exception that no handler of the function caught).
\* KeyboardInterrupt is raised between these steps.
InTry == pc \in {"update", "anchor"}

SimStart ==
    /\ pc = "start"
    /\ pc' = "update"
    /\ UNCHANGED <<ctx, hist, i, anchors, summaries, reported, ticks>>

SimUpdate ==
    /\ pc = "update" /\ i < NumTicks
    /\ Update
    /\ pc' = "anchor"
    /\ anchors' = 0
    /\ ticks' = ticks + 1
    /\ UNCHANGED <<i, summaries, reported>>

SimExhaustedEarly ==
    /\ pc = "update" /\ i >= NumTicks - 1
    /\ pc' = "finally"
    /\ UNCHANGED <<ctx, hist, i, anchors, summaries, reported, ticks>>


SimExhausted ==
    /\ pc = "update" /\ i >= NumTicks
    /\ pc' = "finally"
    /\ UNCHANGED <<ctx, hist, i, anchors, summaries, reported, ticks>>

UseAnchor(q) == q < AnchorChance

ChooseRitual(c) == c < RitualChance

SimAnchor ==
    /\ pc = "anchor"
    /\ \/ /\ InMetaLoop(state)
          /\ \E q \in Draws : UseAnchor(q)
          /\ \/ /\ \E c \in Draws : ChooseRitual(c)
                /\ PerformRitual
             \/ /\ \E c \in Draws : ~ChooseRitual(c)
                /\ SensoryRecord("A humidifier casts a shadow.")
          /\ anchors' = anchors + 1
       \/ /\ \/ ~InMetaLoop(state)
             \/ \E q \in Draws : ~UseAnchor(q)
          /\ UNCHANGED <<ctx, hist, anchors>>
    /\ i' = i + 1
    /\ pc' = "update"
    /\ UNCHANGED <<summaries, reported, ticks>>

\* KeyboardInterrupt: inside the try it reaches the except clause, before the
\* try it leaves run_simulation.  The history records it as the last event.
Interrupt ==
    /\ pc \in {"start", "update", "anchor"}
    /\ pc' = IF InTry THEN "except" ELSE "aborted"
    /\ op' = "interrupt"
    /\ pre' = [fatigue |-> fatigue, state |-> state]
    /\ self' = state
    /\ msg' = -1
    /\ drew' = FALSE
    /\ stay' = 0
    /\ n' = -1
    /\ record' = ""
    /\ UNCHANGED <<ctx, i, anchors, summaries, reported, ticks>>

SimExcept ==
    /\ pc = "except"
    /\ pc' = "finally"
    /\ UNCHANGED <<ctx, hist, i, anchors, summaries, reported, ticks>>

SimFinally ==
    /\ pc = "finally"
    /\ summaries' = summaries + 1
    /\ reported' = fatigue
    /\ pc' = "done"
    /\ UNCHANGED <<ctx, hist, i, anchors, ticks>>

NextSim ==
    \/ SimStart
    \/ SimUpdate
    \/ SimExhausted
    \/ SimAnchor
    \/ Interrupt
    \/ SimExcept
    \/ SimFinally

SpecSim == Init /\ [][NextSim]_vars

----
\* Fresh ObservingState as transition_to(ObservingState()) leaves it.
Normal(s) == IsObserving(s) /\ ~s.in_meta_loop /\ s.meta_loop_counter = 0

Ticked == op = "execute"

\* C1: fatigue is never negative, whatever sequence of execute ticks,
\* perform_ritual calls and sensory_record calls the context has received.
FatigueNonNegative == fatigue >= 0

\* C1 witness: an ExistingState tick whose subtraction of 5.0 was cut off at 0.
FloorActedInExisting ==
    /\ Ticked /\ IsExisting(pre.state)
    /\ pre.fatigue > 0 /\ pre.fatigue < Recovery
    /\ fatigue = 0

ExistingStayBounded ==
    /\ (Ticked /\ IsObserving(pre.state) /\ IsExisting(state)) =>
           state.duration \in 3..6 /\ stay = 0
    /\ (Ticked /\ IsExisting(pre.state)) =>
           /\ self.duration = pre.state.duration - 1
           /\ fatigue = Max(0, pre.fatigue - 10)
           /\ IsObserving(state) <=> self.duration = 0
           /\ IsObserving(state) => Normal(state) /\ stay \in 3..6
           /\ IsExisting(state) => state = self
    /\ IsExisting(state) =>
           state.duration >= 1 /\ (stay + state.duration) \in 3..6

\* C3 witness: the shortest stay has just ended.
ShortestStayEnded ==
    /\ Ticked /\ IsExisting(pre.state) /\ IsObserving(state)
    /\ pre.state.duration = 1 /\ stay = 3

\* C4: no execute tick takes the context out of the meta-loop; only the
\* anchors do.
MetaLoopLeftOnlyByAnchor ==
    (InMetaLoop(pre.state) /\ ~InMetaLoop(state)) =>
        op \in {"perform_ritual", "sensory_record"}

\* C5: perform_ritual leaves fatigue at max(0, fatigue - 10.0), and called
\* in the meta-loop it leaves the context observing with the loop flag
\* cleared and the loop counter 0.
RitualEffect ==
    op = "perform_ritual" =>
        /\ fatigue = Max(0, pre.fatigue - 20)
        /\ InMetaLoop(pre.state) => Normal(state)

\* C5 witness: a ritual performed in a meta-loop that had already counted.
RitualBrokeLoop ==
    /\ op = "perform_ritual" /\ InMetaLoop(pre.state)
    /\ pre.state.meta_loop_counter > 0
    /\ pre.fatigue >= 20

\* C6: sensory_record leaves fatigue at max(0, fatigue - 8.0) and clears the
\* meta-loop like the ritual; the context it leaves is determined by the
\* context before the call alone, so it is the same for every payload.
RecordEffect ==
    op = "sensory_record" =>
        /\ fatigue = Max(0, pre.fatigue - 16)
        /\ InMetaLoop(pre.state) => Normal(state)
        /\ ~InMetaLoop(pre.state) => state = pre.state

\* C6 witness: sensory_record("x") in the meta-loop with counter 0 at fatigue
\* 50.0 left fatigue 42.0.
RecordScenario ==
    /\ op = "sensory_record" /\ record = "x"
    /\ InMetaLoop(pre.state) /\ pre.state.meta_loop_counter = 0
    /\ pre.fatigue = 100 /\ fatigue = 84

\* C7: while the trigger has never fired and no anchor has been called,
\* after n <= 160 ticks fatigue is 20 + 0.5 n and the context observes in
\* normal sub-mode; after the 161st tick fatigue is 100.5 and the context
\* is in ExistingState.
ScenarioA ==
    /\ (n >= 0 /\ n <= 160) => fatigue = 40 + n /\ Normal(state)
    /\ n = 161 => fatigue = 201 /\ IsExisting(state)

\* C7 witness: the 161st undisturbed tick has been made.
ScenarioAEnd == n = 161 /\ Ticked /\ pre.fatigue = 200 /\ Normal(pre.state)

\* C8: when run_simulation is over, by completion or by an interruption at
\* any point of it, the summary has been printed exactly once with the
\* fatigue the context holds.
SummaryAlwaysOnce ==
    pc \in {"done", "aborted"} => summaries = 1 /\ reported = fatigue

\* C9: fatigue never exceeds 103.5, and at every draw of the meta-loop
\* trigger the threshold fatigue / 200.0 lies in [0, 1).
FatigueBounded ==
    /\ fatigue <= 207
    /\ drew => fatigue >= 0 /\ fatigue < TriggerScale

\* C9 witness: the largest fatigue, 103.0, left by a meta-loop tick from 100.0.
FatiguePeak == fatigue = 206 /\ Ticked /\ InMetaLoop(pre.state)

\* C10: a tick in the meta-loop adds exactly 3.0 to fatigue and 1 to the loop
\* counter, prints the message whose index is the counter before the
\* increment mod 5, and makes no trigger draw.
MetaLoopTick ==
    (Ticked /\ InMetaLoop(pre.state)) =>
        /\ fatigue = pre.fatigue + 6
        /\ self.meta_loop_counter = pre.state.meta_loop_counter + 1
        /\ msg = pre.state.meta_loop_counter % 5
        /\ ~drew

\* C10 witness: the eighth tick of a meta-loop, which prints messages[2].
EighthLoopTick ==
    /\ Ticked /\ InMetaLoop(pre.state)
    /\ pre.state.meta_loop_counter = 7 /\ msg = 2

Anchored == op \in {"perform_ritual", "sensory_record"}

\* C11: a tick of ObservingState in normal sub-mode adds exactly 0.5 to
\* fatigue, also on the tick that starts the meta-loop, and a loop started
\* on that tick has counter 0.
NormalTick ==
    (Ticked /\ IsObserving(pre.state) /\ ~pre.state.in_meta_loop) =>
        /\ fatigue = pre.fatigue + 1
        /\ drew
        /\ self.in_meta_loop => self.meta_loop_counter = 0

\* C11 witness: a normal tick that started the meta-loop and stayed observing.
LoopStartedOnTick ==
    /\ Ticked /\ IsObserving(pre.state) /\ ~pre.state.in_meta_loop
    /\ InMetaLoop(state) /\ fatigue = pre.fatigue + 1

\* C12: run_simulation left uninterrupted makes exactly 150 ticks and stops;
\* each iteration calls update exactly once and then at most one anchor,
\* and an anchor is only called on a context that is in the meta-loop.
DriverDiscipline ==
    /\ ticks <= 150
    /\ (pc = "done" /\ op # "interrupt") => ticks = 150 /\ i = 150
    /\ pc = "update" => ticks = i
    /\ pc = "anchor" => ticks = i + 1 /\ Ticked /\ anchors = 0
    /\ anchors <= 1
    /\ Anchored => anchors = 1 /\ InMetaLoop(pre.state)

\* C12 witness: an uninterrupted run that is over, its last iteration having
\* called an anchor.
RunCompleted == pc = "done" /\ Anchored /\ ticks = 150 /\ summaries = 1

\* C13: a tick of an ObservingState in the meta-loop never clears the loop
\* flag of that object nor resets its counter; if the context still
\* observes after the tick, it is still in the meta-loop.
LoopNotClearedByTick ==
    (Ticked /\ InMetaLoop(pre.state)) =>
        /\ self.in_meta_loop
        /\ self.meta_loop_counter > pre.state.meta_loop_counter
        /\ IsObserving(state) => state = self

\* C13 witness: a meta-loop tick after which the context still observes.
LoopTickStayed ==
    /\ Ticked /\ InMetaLoop(pre.state) /\ InMetaLoop(state)
    /\ pre.state.meta_loop_counter >= NumMessages

\* C14: on a normal tick that leaves fatigue above 100.0 the meta-loop is not
\* started: the flag of the ticking ObservingState is not set.
NoLoopStartAboveThreshold ==
    (Ticked /\ IsObserving(pre.state) /\ ~pre.state.in_meta_loop /\ fatigue > 200) =>
        ~self.in_meta_loop

\* C15: the kind of the state object changes only on execute ticks: into
\* ExistingState on a tick of an ObservingState, into ObservingState on the
\* tick of an ExistingState that brought its duration to 0; anchors never
\* change the kind.
VariantsAlternate ==
    /\ op = "init" => IsObserving(state)
    /\ (IsExisting(state) /\ ~IsExisting(pre.state)) =>
           Ticked /\ IsObserving(pre.state) /\ IsObserving(self)
    /\ (IsObserving(state) /\ ~IsObserving(pre.state)) =>
           Ticked /\ IsExisting(pre.state) /\ IsExisting(self) /\ self.duration = 0
    /\ Anchored => state.kind = pre.state.kind

\* C15 witness: the longest stay has just ended on the tick that brought the
\* duration to 0.
LongestStayEnded ==
    /\ Ticked /\ IsExisting(pre.state) /\ IsObserving(state)
    /\ self.duration = 0 /\ stay = 6

\* C16: the loop flag is false after construction and after every entry into
\* ObservingState; it turns true only on a tick of an ObservingState in
\* normal sub-mode, by the trigger draw; no anchor and no ExistingState tick
\* sets it.
LoopFlagSetOnlyByTrigger ==
    /\ op = "init" => Normal(state)
    /\ (IsObserving(state) /\ ~IsObserving(pre.state)) => Normal(state)
    /\ (InMetaLoop(state) /\ ~InMetaLoop(pre.state)) =>
           Ticked /\ IsObserving(pre.state) /\ drew
    /\ (Anchored \/ (Ticked /\ IsExisting(pre.state))) => ~InMetaLoop(state)

\* C16 witness: the first tick of a fresh ObservingState entered from
\* ExistingState, on which the trigger fired.
TriggerAfterReturn ==
    /\ Ticked /\ InMetaLoop(state) /\ Normal(pre.state)
    /\ pre.fatigue > 100

\* C17: an anchor called on a context that is not in the meta-loop (in
\* ExistingState, or observing in normal sub-mode) leaves the state object
\* as it was, duration, flag and counter included; only fatigue changes.
AnchorFrame ==
    (Anchored /\ ~InMetaLoop(pre.state)) =>
        /\ state = pre.state
        /\ fatigue <= pre.fatigue

\* C17 witness: a ritual in ExistingState that lowered fatigue.
RitualInExisting ==
    /\ op = "perform_ritual" /\ IsExisting(pre.state)
    /\ fatigue = pre.fatigue - 20

\* C18: between operations, an observing context holds fatigue of at most
\* 100.0; values above are only held in ExistingState.
ObservingAtMostHundred == IsObserving(state) => fatigue <= 200

\* C18 witness: a context in the meta-loop holding exactly 100.0.
LoopingAtHundred == InMetaLoop(state) /\ fatigue = 200

ReturnFatigueRange ==
    (Ticked /\ IsExisting(pre.state)) =>
        /\ pre.fatigue >= 10
        /\ IsObserving(state) => fatigue >= 141 /\ fatigue <= 176

\* C20 witness: a return to ObservingState at the lowest fatigue, 70.5.
LowestReturn ==
    /\ pc = "anchor" /\ Ticked /\ IsExisting(pre.state) /\ IsObserving(state)
    /\ fatigue = 141 /\ stay = 6
====
